---------------------------- MODULE Spec2Model ----------------------------
(***************************************************************************)
(* Kalman-filter pairs-trading backtest (src/src/math_model.py,            *)
(* src/src/backtester.py).                                                 *)
(*                                                                         *)
(* Number representation.  The program computes in float64.  Here every    *)
(* price, residual, filter state, z-score, threshold and equity is an      *)
(* integer count of 1/SCALE, and every covariance (P, Q, R, S) an integer  *)
(* count of 1/PSCALE.  A product or quotient is rounded to the nearest     *)
(* unit (Rnd), as a float operation rounds to the nearest float.           *)
(* position and prev_position are the plain integers -1, 0, 1.             *)
(***************************************************************************)
EXTENDS Integers, Sequences, FiniteSets, TLC

\* ------------------------------------------------------------ bounds
SCALE == 1000          \* units per 1.0 of a price / state / z-score
PSCALE == 100000       \* units per 1.0 of a covariance
MaxX == 2              \* asset_x prices are 1..MaxX
MaxY == 3              \* asset_y prices are 1..MaxY
MaxRows == 33          \* rows of the long input series
MaxRuns == 2           \* run() calls on the one Backtester object

\* ------------------------------------------------------------ program constants
WINDOW == 30           \* len(spreads) < 30, spreads[-30:]
StartEquity == 100000  \* curr_equity = 100000.0

\* ------------------------------------------------------------ arithmetic
\* a / b rounded to the nearest integer (b > 0)
Rnd(a, b) == (a + (b \div 2)) \div b

RECURSIVE SqrtIter(_, _, _)
\* largest r in lo..hi with r*r <= n  (lo*lo <= n < (hi+1)*(hi+1))
SqrtIter(n, lo, hi) ==
    IF lo >= hi THEN lo
    ELSE LET mid == (lo + hi + 1) \div 2
         IN  IF mid * mid <= n THEN SqrtIter(n, mid, hi)
                               ELSE SqrtIter(n, lo, mid - 1)

\* np.sqrt of a non-negative number, rounded to the nearest integer
Sqrt(n) ==
    LET r == SqrtIter(n, 0, 46339)
    IN  IF n - r * r > r THEN r + 1 ELSE r

RECURSIVE SumSeq(_)
SumSeq(s) == IF s = <<>> THEN 0 ELSE Head(s) + SumSeq(Tail(s))

Last(s) == s[Len(s)]

\* ------------------------------------------------------------ KalmanFilterReg
\* delta=1e-5 and R=1e-3, the defaults the Backtester constructs its filter with
DELTA == PSCALE \div 100000
RNoise == PSCALE \div 1000

\* InitState from np.ones(2)
InitStateOnes == <<SCALE, SCALE>>

\* self.state = np.zeros(2)
InitState == <<0, 0>>
\* self.P = np.eye(2)
InitP == << <<PSCALE, 0>>, <<0, PSCALE>> >>
\* self.Q = np.eye(2) * delta
Q == << <<DELTA, 0>>, <<0, DELTA>> >>

\* KalmanFilterReg(): the filter object after __init__ with the default delta and R
InitFilter == [state |-> InitState, P |-> InitP, Q |-> Q, R |-> RNoise]

\* self.P = self.P + self.Q
Predict(f) == [i \in 1..2 |-> [j \in 1..2 |-> f.P[i][j] + f.Q[i][j]]]

\* H = np.array([x, 1.0])
Obs(x) == <<x, SCALE>>

\* error = y - np.dot(H, self.state)
Innovation(state, x, y) ==
    LET H == Obs(x)
    IN  y - Rnd(H[1] * state[1] + H[2] * state[2], SCALE)

\* np.dot(self.P, H.T)
PHt(P, H) == [i \in 1..2 |-> Rnd(P[i][1] * H[1] + P[i][2] * H[2], SCALE)]

\* S = np.dot(H, np.dot(self.P, H.T)) + self.R
InnovationVar(P, H, R) ==
    LET PH == PHt(P, H)
    IN  Rnd(H[1] * PH[1] + H[2] * PH[2], SCALE) + R

\* K = np.dot(self.P, H.T) / S
Gain(P, H, R) ==
    LET PH == PHt(P, H)
        S  == InnovationVar(P, H, R)
    IN  [i \in 1..2 |-> Rnd(PH[i] * SCALE, S)]

\* self.P = (np.eye(2) - np.outer(K, H)) @ self.P
CovUpdate(K, H, P) ==
    LET A == [i \in 1..2 |-> [j \in 1..2 |->
                 (IF i = j THEN SCALE ELSE 0) - Rnd(K[i] * H[j], SCALE)]]
    IN  [i \in 1..2 |-> [j \in 1..2 |->
            Rnd(A[i][1] * P[1][j] + A[i][2] * P[2][j], SCALE)]]

\* KfUpdate returning the residual against the state after the update
KfUpdatePosterior(f, x, y) ==
    LET P1    == Predict(f)
        H     == Obs(x)
        error == Innovation(f.state, x, y)
        K     == Gain(P1, H, f.R)
        st    == [i \in 1..2 |-> f.state[i] + Rnd(K[i] * error, SCALE)]
        P2    == CovUpdate(K, H, P1)
    IN  [filter |-> [state |-> st, P |-> P2, Q |-> f.Q, R |-> f.R],
         beta |-> st[1], alpha |-> st[2], error |-> Innovation(st, x, y)]

\* KalmanFilterReg.update(x, y): the filter after the call and the values returned
\* (f is the filter object before the call)
KfUpdate(f, x, y) ==
    LET P1    == Predict(f)
        H     == Obs(x)
        error == Innovation(f.state, x, y)
        K     == Gain(P1, H, f.R)
        st    == [i \in 1..2 |-> f.state[i] + Rnd(K[i] * error, SCALE)]
        P2    == CovUpdate(K, H, P1)
    IN  [filter |-> [state |-> st, P |-> P2, Q |-> f.Q, R |-> f.R],
         beta |-> st[1], alpha |-> st[2], error |-> error]

\* ------------------------------------------------------------ Backtester
\* Window taking the whole history (spreads[:])
WindowAll(s) == s

\* spreads[-30:]
Window(s) == IF Len(s) <= WINDOW THEN s ELSE SubSeq(s, Len(s) - WINDOW + 1, Len(s))

\* np.std(w): sqrt(mean(abs(w - w.mean())**2)), the divisor being len(w)
NpStd(w) ==
    LET n   == Len(w)
        m   == Rnd(SumSeq(w), n)
        dev == [k \in 1..n |-> (w[k] - m) * (w[k] - m)]
    IN  Sqrt(Rnd(SumSeq(dev), n))

\* StdSpread with the warm-up one step longer (<=)
StdSpreadLateStart(s) == IF Len(s) <= WINDOW THEN SCALE ELSE NpStd(Window(s))

\* std_spread, computed after spreads.append(spread_error)
StdSpread(s) == IF Len(s) < WINDOW THEN SCALE ELSE NpStd(Window(s))

\* ZScore falling back to the raw residual when std_spread is 0
ZScoreRawFallback(err, sd) == IF sd > 0 THEN Rnd(err * SCALE, sd) ELSE err

\* z_score = spread_error / std_spread if std_spread > 0 else 0
ZScore(err, sd) == IF sd > 0 THEN Rnd(err * SCALE, sd) ELSE 0

\* FromFlat with the entry comparisons inclusive (>=, <=)
FromFlatInclusive(z, entry) ==
    IF z >= entry THEN -1
    ELSE IF z <= -entry THEN 1
    ELSE 0

\* if self.position == 0: ...
FromFlat(z, entry) ==
    IF z > entry THEN -1
    ELSE IF z < -entry THEN 1
    ELSE 0

\* FromLong reversing into ShortSpread instead of closing
FromLongReverse(z, exit) == IF z >= -exit THEN -1 ELSE 1

\* elif self.position == 1: ...
FromLong(z, exit) == IF z >= -exit THEN 0 ELSE 1

\* FromShort with the exit comparison strict (<)
FromShortStrict(z, exit) == IF z < exit THEN 0 ELSE -1

\* elif self.position == -1: ...
FromShort(z, exit) == IF z <= exit THEN 0 ELSE -1

\* the "Mean Reversion Logic" block: the position after the step
NextPosition(pos, z, entry, exit) ==
    IF pos = 0 THEN FromFlat(z, entry)
    ELSE IF pos = 1 THEN FromLong(z, exit)
    ELSE IF pos = -1 THEN FromShort(z, exit)
    ELSE pos

\* PnlPosition reading self.position after the transition
PnlPositionAfter(prev, new) == new

\* the position daily_pnl is multiplied by: prev_position, saved before the block
PnlPosition(prev, new) == prev

\* DailyPnl booked whether or not a position is held
DailyPnlNoPosition(p, dy, dx, beta) == dy - Rnd(beta * dx, SCALE)

\* DailyPnl with the hedge leg added instead of subtracted
DailyPnlSignSlip(p, dy, dx, beta) == p * (dy + Rnd(beta * dx, SCALE))

\* daily_pnl = prev_position * (px_change_y - beta * px_change_x)
DailyPnl(p, dy, dx, beta) == p * (dy - Rnd(beta * dx, SCALE))

\* FirstEquity left at zero
FirstEquityZero == 0 * SCALE

\* curr_equity of a step taken with an empty equity_curve
FirstEquity == StartEquity * SCALE

\* PrevRow always taking the last row (iloc[-1])
PrevRowLast(d, i) == d[Len(d)]

\* self.data.iloc[self.data.index.get_loc(t) - 1]: a negative position counts
\* from the end, so the row before the first one is the last one
PrevRow(d, i) == IF i = 1 THEN d[Len(d)] ELSE d[i - 1]

\* ------------------------------------------------------------ inputs
Rows == {<<x * SCALE, y * SCALE>> : x \in 1..MaxX, y \in 1..MaxY}

\* a series of n rows: r2 in rows c1..c2-1, r1 in every other row
Series(n, c1, c2, r1, r2) ==
    [i \in 1..n |-> IF c1 <= i /\ i < c2 THEN r2 ELSE r1]

Lengths == {0, 1, 2, MaxRows}
Cuts == {<<2, 3>>, <<2, 4>>, <<3, WINDOW + 1>>}

\* (entry_threshold, exit_threshold): the defaults, two other usual settings,
\* and two settings outside the documented ranges
Configs == {<<2 * SCALE, 0>>, <<SCALE, 0>>, <<SCALE, SCALE>>,
            <<0, 0>>, <<SCALE, -SCALE>>}

\* a configuration inside the documented ranges
ValidConfig(cfg) == cfg[1] > 0 /\ cfg[2] >= 0

\* ------------------------------------------------------------ state
VARIABLES
    data,             \* self.data: the rows <<asset_x, asset_y>>
    entry_threshold,  \* self.entry_threshold
    exit_threshold,   \* self.exit_threshold
    kf,               \* self.kf: [state, P, Q, R]
    position,         \* self.position
    equity_curve,     \* self.equity_curve
    hedge_ratios,     \* run(): hedge_ratios
    spreads,          \* run(): spreads
    z_scores,         \* run(): z_scores
    t,                \* run(): rows consumed by the loop of the current call
    alpha,            \* run(): alpha returned to the latest step
    prev_position,    \* run(): prev_position of the latest step
    std_spread,       \* run(): std_spread of the latest step
    daily_pnl,        \* run(): daily_pnl of the latest step that computed one
    pc,               \* "constructed", "running", "returned", "raised"
    runs,             \* run() calls started
    outcomes,         \* what each finished run() call gave its caller
    twin              \* a second Backtester and its data (paired runs only)

vars == <<data, entry_threshold, exit_threshold, kf, position, equity_curve,
          hedge_ratios, spreads, z_scores, t, alpha, prev_position, std_spread,
          daily_pnl, pc, runs, outcomes, twin>>

\* Backtester.__init__
Init ==
    /\ \E n \in Lengths, c \in Cuts, r1 \in Rows, r2 \in Rows :
           data = Series(n, c[1], c[2], r1, r2)
    /\ \E cfg \in Configs :
           /\ entry_threshold = cfg[1]
           /\ exit_threshold = cfg[2]
    /\ kf = InitFilter
    /\ alpha = 0
    /\ position = 0
    /\ equity_curve = <<>>
    /\ hedge_ratios = <<>>
    /\ spreads = <<>>
    /\ z_scores = <<>>
    /\ t = 0
    /\ prev_position = 0
    /\ std_spread = 0
    /\ daily_pnl = 0
    /\ pc = "constructed"
    /\ runs = 0
    /\ outcomes = <<>>
    /\ twin = <<>>

\* a call of run(): the three history lists are new; self.kf, self.position
\* and self.equity_curve are the object's
RunStart ==
    /\ pc \in {"constructed", "returned", "raised"}
    /\ runs < MaxRuns
    /\ runs' = runs + 1
    /\ pc' = "running"
    /\ hedge_ratios' = <<>>
    /\ spreads' = <<>>
    /\ z_scores' = <<>>
    /\ t' = 0
    /\ alpha' = 0
    /\ prev_position' = 0
    /\ std_spread' = 0
    /\ daily_pnl' = 0
    /\ UNCHANGED <<data, entry_threshold, exit_threshold, kf, position,
                   equity_curve, outcomes, twin>>

\* the loop body of run() on row b.t + 1 of d: the Backtester b (the object's
\* fields and the call's locals) after the iteration
Body(b, d, entry, exit) ==
    LET x_price == d[b.t + 1][1]
        y_price == d[b.t + 1][2]
        u       == KfUpdate(b.kf, x_price, y_price)
        sp      == Append(b.spreads, u.error)
        sd      == StdSpread(sp)
        z_score == ZScore(u.error, sd)
        newpos  == NextPosition(b.position, z_score, entry, exit)
        prior   == PrevRow(d, b.t + 1)
        pnl     == DailyPnl(PnlPosition(b.position, newpos),
                            y_price - prior[2], x_price - prior[1], u.beta)
        first   == Len(b.equity_curve) = 0
    IN  [kf            |-> u.filter,
         alpha         |-> u.alpha,
         spreads       |-> sp,
         std_spread    |-> sd,
         prev_position |-> b.position,
         position      |-> newpos,
         daily_pnl     |-> IF first THEN b.daily_pnl ELSE pnl,
         equity_curve  |-> IF first THEN Append(b.equity_curve, FirstEquity)
                           ELSE Append(b.equity_curve, Last(b.equity_curve) + pnl),
         hedge_ratios  |-> Append(b.hedge_ratios, u.beta),
         z_scores      |-> Append(b.z_scores, z_score),
         t             |-> b.t + 1]

\* the Backtester the variables hold
Self ==
    [kf |-> kf, alpha |-> alpha, spreads |-> spreads, std_spread |-> std_spread,
     prev_position |-> prev_position, position |-> position, daily_pnl |-> daily_pnl,
     equity_curve |-> equity_curve, hedge_ratios |-> hedge_ratios,
     z_scores |-> z_scores, t |-> t]

\* one iteration of "for t, row in self.data.iterrows()" on self
Iterate ==
    /\ pc = "running"
    /\ t < Len(data)
    /\ LET b == Body(Self, data, entry_threshold, exit_threshold)
       IN  /\ kf' = b.kf
           /\ alpha' = b.alpha
           /\ spreads' = b.spreads
           /\ std_spread' = b.std_spread
           /\ prev_position' = b.prev_position
           /\ position' = b.position
           /\ daily_pnl' = b.daily_pnl
           /\ equity_curve' = b.equity_curve
           /\ hedge_ratios' = b.hedge_ratios
           /\ z_scores' = b.z_scores
           /\ t' = b.t
    /\ UNCHANGED <<data, entry_threshold, exit_threshold, pc, runs, outcomes>>

\* the iteration in a run of the one Backtester
Step == Iterate /\ UNCHANGED twin

\* pd.DataFrame({...}, index=self.data.index) needs every column as long as the index
FrameFits ==
    /\ Len(equity_curve) = Len(data)
    /\ Len(hedge_ratios) = Len(data)
    /\ Len(z_scores) = Len(data)

\* the loop is over and the DataFrame is built and returned
Return ==
    /\ pc = "running"
    /\ t = Len(data)
    /\ FrameFits
    /\ pc' = "returned"
    /\ outcomes' = Append(outcomes, [status |-> "returned", equity |-> equity_curve,
                                     hedge_ratio |-> hedge_ratios, z_score |-> z_scores])
    /\ UNCHANGED <<data, entry_threshold, exit_threshold, kf, position, equity_curve,
                   hedge_ratios, spreads, z_scores, t, alpha, prev_position,
                   std_spread, daily_pnl, runs, twin>>

\* the loop is over and pd.DataFrame raises ValueError: a column is longer than the index
Raise ==
    /\ pc = "running"
    /\ t = Len(data)
    /\ ~FrameFits
    /\ pc' = "raised"
    /\ outcomes' = Append(outcomes, [status |-> "raised", equity |-> <<>>,
                                     hedge_ratio |-> <<>>, z_score |-> <<>>])
    /\ UNCHANGED <<data, entry_threshold, exit_threshold, kf, position, equity_curve,
                   hedge_ratios, spreads, z_scores, t, alpha, prev_position,
                   std_spread, daily_pnl, runs, twin>>

Next == RunStart \/ Step \/ Return \/ Raise

Spec == Init /\ [][Next]_vars

\* ------------------------------------------------------------ paired runs
\* Two freshly constructed Backtesters with the same thresholds, on two series
\* that agree up to a row and differ from there on, run side by side.

\* a row other than r
OtherRow(r) == <<(((r[1] \div SCALE) % MaxX) + 1) * SCALE,
                 (((r[2] \div SCALE) % MaxY) + 1) * SCALE>>

\* d with every row from row j on replaced by another row
Diverge(d, j) == [i \in 1..Len(d) |-> IF i < j THEN d[i] ELSE OtherRow(d[i])]

\* the rows at which the second series starts to differ
DivergeAt == {2, WINDOW + 1}

\* a Backtester after __init__, before its loop
Fresh ==
    [kf |-> InitFilter, alpha |-> 0, spreads |-> <<>>, std_spread |-> 0,
     prev_position |-> 0, position |-> 0, daily_pnl |-> 0, equity_curve |-> <<>>,
     hedge_ratios |-> <<>>, z_scores |-> <<>>, t |-> 0]

InitPair ==
    /\ \E c \in Cuts, r1 \in Rows, r2 \in Rows, j \in DivergeAt :
           /\ data = Series(MaxRows, c[1], c[2], r1, r2)
           /\ twin = [data |-> Diverge(data, j), b |-> Fresh]
    /\ \E cfg \in Configs :
           /\ ValidConfig(cfg)
           /\ entry_threshold = cfg[1]
           /\ exit_threshold = cfg[2]
    /\ kf = InitFilter
    /\ alpha = 0
    /\ position = 0
    /\ equity_curve = <<>>
    /\ hedge_ratios = <<>>
    /\ spreads = <<>>
    /\ z_scores = <<>>
    /\ t = 0
    /\ prev_position = 0
    /\ std_spread = 0
    /\ daily_pnl = 0
    /\ pc = "constructed"
    /\ runs = 0
    /\ outcomes = <<>>

\* both run() calls begin
PairStart == runs = 0 /\ RunStart

\* both loops take their next row
PairStep ==
    /\ Iterate
    /\ twin.b.t < Len(twin.data)
    /\ twin' = [twin EXCEPT !.b = Body(twin.b, twin.data, entry_threshold, exit_threshold)]

\* both loops are over
PairReturn == Return

NextPair == PairStart \/ PairStep \/ PairReturn

SpecPair == InitPair /\ [][NextPair]_vars

\* ------------------------------------------------------------ properties
\* the z_score, residual and beta recorded by the latest step (t >= 1)
LastZ == Last(z_scores)
LastResidual == Last(spreads)
LastBeta == Last(hedge_ratios)

\* dY - beta_i * dX of row i against row i-1, with the beta recorded at step i
SpreadChange(i) ==
    (data[i][2] - data[i - 1][2])
        - Rnd(hedge_ratios[i] * (data[i][1] - data[i - 1][1]), SCALE)

ValidThresholds == entry_threshold > 0 /\ exit_threshold >= 0

C2_ExitInclusive ==
    /\ (t >= 1 /\ prev_position = 1) =>
           position = (IF LastZ >= -exit_threshold THEN 0 ELSE 1)
    /\ (t >= 1 /\ prev_position = -1) =>
           position = (IF LastZ <= exit_threshold THEN 0 ELSE -1)

\* a step entered ShortSpread with z_score exactly at the exit boundary
C2_Witness ==
    /\ t >= 1
    /\ prev_position = -1
    /\ ValidThresholds
    /\ LastZ = exit_threshold
    /\ position = 0

\* C3: for every step after the first, equity(t) = equity(t-1) + p * (dY - beta_t * dX),
\* p the position entering step t, beta_t the beta returned at step t, dY and dX the
\* differences between row t and the row before it.
C3_EquityStep ==
    (t >= 2) =>
        equity_curve[Len(equity_curve)] =
            equity_curve[Len(equity_curve) - 1] + prev_position * SpreadChange(t)

\* a step after the first, entered with an open position, whose beta differs from
\* the previous step's, with dX # 0 and a non-zero profit or loss
C3_Witness ==
    /\ t >= 2
    /\ prev_position # 0
    /\ data[t][1] # data[t - 1][1]
    /\ hedge_ratios[t] # hedge_ratios[t - 1]
    /\ equity_curve[Len(equity_curve)] # equity_curve[Len(equity_curve) - 1]

\* C4 as claimed: the daily PnL of step t is computed with the position that
\* results from step t's transition.
C4_PnlUsesNewPosition ==
    (t >= 2) => daily_pnl = position * SpreadChange(t)

\* C4 as amended: the daily PnL of step t is computed with the position held
\* entering step t; the transition decided at step t has no effect on it.
C4_PnlUsesEnteringPosition ==
    (t >= 2) => daily_pnl = prev_position * SpreadChange(t)

\* a step after the first in which the position changes while the hedged spread moves
C4_Witness ==
    /\ t >= 2
    /\ position # prev_position
    /\ SpreadChange(t) # 0

\* C5: in the first run of a Backtester the equity recorded for the first step is
\* 100,000 whatever the first row's prices, and that step computes no PnL.
C5_FirstEquity ==
    (runs = 1 /\ t >= 1) =>
        /\ equity_curve[1] = StartEquity * SCALE
        /\ (t = 1 => (Len(equity_curve) = 1 /\ daily_pnl = 0))

\* the first step of a first run, on a first row other than the cheapest one,
\* that opens a position
C5_Witness ==
    /\ runs = 1
    /\ t = 1
    /\ data[1] = <<MaxX * SCALE, MaxY * SCALE>>
    /\ position # 0
    /\ equity_curve = <<StartEquity * SCALE>>

\* C6: two successive run() calls on one Backtester give the same ResultSeries,
\* each starting Flat, with no equity recorded and the estimator in its initial state.
C6_RerunSameResult ==
    /\ (Len(outcomes) >= 2) => outcomes[2] = outcomes[1]
    /\ (pc = "running" /\ t = 0) =>
           /\ position = 0
           /\ equity_curve = <<>>
           /\ kf = InitFilter

\* C7: a run on fewer than 2 rows simulates no step and returns no ResultSeries.
C7_ShortInputRejected ==
    (Len(data) < 2) => (t = 0 /\ pc # "returned")

\* C8: no run executes with a non-positive entry_threshold or a negative
\* exit_threshold.
C8_ThresholdsValidated ==
    (runs >= 1) => ValidThresholds

\* C9: in each of the first 29 steps of a run std_spread is 1.0 and the recorded
\* z_score is the step's residual; at the 30th step std_spread is computed from
\* the residuals.
C9_WarmUp ==
    /\ (1 <= t /\ t < WINDOW) => (std_spread = SCALE /\ LastZ = LastResidual)
    /\ (t = WINDOW) => std_spread = NpStd(spreads)

\* the 29th step of a run whose residuals so far are dispersed, with a non-zero residual
C9_Witness ==
    /\ t = WINDOW - 1
    /\ LastResidual # 0
    /\ NpStd(spreads) # 0
    /\ NpStd(spreads) # SCALE
    /\ std_spread = SCALE

\* the 30 residuals of steps t-29..t
Trailing == [k \in 1..WINDOW |-> spreads[t - WINDOW + k]]

\* the standard deviation with divisor len(w) - 1
SampleStd(w) ==
    LET n   == Len(w)
        m   == Rnd(SumSeq(w), n)
        dev == [k \in 1..n |-> (w[k] - m) * (w[k] - m)]
    IN  Sqrt(Rnd(SumSeq(dev), n - 1))

\* the standard deviation with divisor len(w)
PopulationStd(w) ==
    LET n   == Len(w)
        m   == Rnd(SumSeq(w), n)
        dev == [k \in 1..n |-> (w[k] - m) * (w[k] - m)]
    IN  Sqrt(Rnd(SumSeq(dev), n))

C11_ZeroDispersion ==
    (t >= 1) =>
        /\ (std_spread > 0) => LastZ = Rnd(LastResidual * SCALE, std_spread)
        /\ (std_spread <= 0) => LastZ = 0
        /\ (std_spread <= 0 /\ ValidThresholds) => position = 0

\* a step whose trailing window has zero dispersion, with a non-zero residual,
\* entered with an open position and valid thresholds
C11_Witness ==
    /\ t >= WINDOW
    /\ std_spread = 0
    /\ LastResidual # 0
    /\ prev_position # 0
    /\ ValidThresholds
    /\ position = 0

\* C12: run() processes each row once, in order, and returns a ResultSeries whose
\* equity, hedge_ratio and z_score each have one entry per input row.
C12_OneEntryPerRow ==
    (pc \in {"returned", "raised"}) =>
        /\ pc = "returned"
        /\ t = Len(data)
        /\ Len(Last(outcomes).equity) = Len(data)
        /\ Len(Last(outcomes).hedge_ratio) = Len(data)
        /\ Len(Last(outcomes).z_score) = Len(data)

\* P + Q, the covariance after the predict step
Predicted == [i \in 1..2 |-> [j \in 1..2 |-> kf.P[i][j] + kf.Q[i][j]]]

\* C15: update(x, y) returns the residual against the state held before the call,
\* and the beta and alpha of the state after it; predict adds Q to P and leaves
\* the state alone; Q and R are not modified.
C15_UpdateReturns ==
    [][(t' = t + 1) =>
        LET x == data[t'][1]
            y == data[t'][2]
            H == <<x, SCALE>>
        IN  /\ Last(spreads') = y - Rnd(x * kf.state[1] + SCALE * kf.state[2], SCALE)
            /\ Last(hedge_ratios') = kf'.state[1]
            /\ alpha' = kf'.state[2]
            /\ kf'.P = CovUpdate(Gain(Predicted, H, kf.R), H, Predicted)
            /\ kf'.Q = kf.Q
            /\ kf'.R = kf.R]_vars

\* a step whose residual differs from the one the state after the update gives,
\* with a state away from its initial value
C15_Witness ==
    /\ t >= 2
    /\ LastBeta = kf.state[1]
    /\ alpha = kf.state[2]
    /\ alpha # 0
    /\ LastResidual # Innovation(kf.state, data[t][1], data[t][2])
    /\ kf.Q = Q
    /\ kf.R = RNoise

\* C16: the position is -1, 0 or 1; it changes only in a step of run(), and every
\* change is from Flat or to Flat, never between LongSpread and ShortSpread.
C16_PositionMoves ==
    [][/\ position' \in {-1, 0, 1}
       /\ (position' # position) =>
              /\ t' = t + 1
              /\ prev_position' = position
              /\ (position = 0 \/ position' = 0)]_vars

\* a LongSpread closed by a z_score above entry_threshold: the step ends Flat,
\* not ShortSpread
C16_Witness ==
    /\ t >= 1
    /\ prev_position = 1
    /\ position = 0
    /\ ValidThresholds
    /\ LastZ > entry_threshold

\* C17: a step after the first that is entered Flat leaves equity unchanged, also
\* when it opens a position; a step that closes a position books the PnL of the
\* position held entering it.
C17_EquityFrame ==
    (t >= 2) =>
        LET now    == equity_curve[Len(equity_curve)]
            before == equity_curve[Len(equity_curve) - 1]
        IN  /\ (prev_position = 0) => now = before
            /\ (prev_position # 0 /\ position = 0) =>
                   now - before = prev_position * SpreadChange(t)

\* a step after the first that closes a position and books a non-zero PnL
C17_Witness ==
    /\ t >= 2
    /\ prev_position # 0
    /\ position = 0
    /\ SpreadChange(t) # 0
    /\ equity_curve[Len(equity_curve)] # equity_curve[Len(equity_curve) - 1]

Agree(k) == \A i \in 1..k : data[i] = twin.data[i]

\* C13: two fresh runs with the same thresholds, on series that agree on their
\* first k rows, record the same equity, hedge_ratio and z_score for each of the
\* first k steps and hold the same position after step k.
C13_NoLookAhead ==
    \A k \in 1..t :
        Agree(k) =>
            /\ twin.b.t >= k
            /\ equity_curve[k] = twin.b.equity_curve[k]
            /\ hedge_ratios[k] = twin.b.hedge_ratios[k]
            /\ z_scores[k] = twin.b.z_scores[k]
            /\ (k = t) => position = twin.b.position

\* a paired run past the row where the series part: the first 30 steps agree, an
\* open position was carried across them, and the latest outputs differ
C13_Witness ==
    /\ t > WINDOW
    /\ Agree(WINDOW)
    /\ ~Agree(t)
    /\ equity_curve[WINDOW] # StartEquity * SCALE
    /\ z_scores[t] # twin.b.z_scores[t]
    /\ hedge_ratios[t] # twin.b.hedge_ratios[t]

=============================================================================
